---- MODULE Spec2Model ----
(***************************************************************************)
(* Model of the chat orchestration of the legal document assistant:        *)
(*   src/src/agent/legal_agent.py   LegalDocumentAgent.chat and            *)
(*                                  LegalDocumentAgent._execute_tool_call  *)
(*   src/src/agent/config.py        AgentConfig                            *)
(*                                                                         *)
(* chat() is an async generator.  One action of the model is the code      *)
(* that runs between two suspension points of the generator (an await of   *)
(* the completion stream or of a tool handler, or a yield to the caller).  *)
(*                                                                         *)
(* The specifications share the definitions:                               *)
(*   Spec             one agent serving chat requests, with function       *)
(*                    calling                                              *)
(*   SpecSession      the same agent with function calling switched off    *)
(*                    (AgentConfig.enable_function_calling = False), run   *)
(*                    for enough turns to make the history trimming happen *)
(*   SpecDispatch     _execute_tool_call applied to every function name    *)
(*   SpecDispatchFair SpecDispatch with a generator that keeps running     *)
(*   SpecCancel       SpecDispatch with a caller that may go away          *)
(*   SpecFilter       the security filter, the search and the context of   *)
(*                    chat() for every (user_id, security_enabled)         *)
(*   SpecConcurrent   several chat() generators served side by side        *)
(*   SpecEndpoint     POST /api/chat (src/src/main.py)                     *)
(*   SpecDocuments    POST /api/upload and DELETE /api/documents/{id}      *)
(*   SpecRetrieval    the searches of chat() and of POST /api/search       *)
(*   SpecCitations    a completion that ends in the SOURCES comment        *)
(*   SpecSameSession  several chat() generators of one session             *)
(*   SpecListing      GET /api/documents next to chat()                    *)
(*   SpecCases        create_legal_case_db                                 *)
(*                    (src/src/tools/database_tools.py)                    *)
(***************************************************************************)
EXTENDS Integers, Sequences, FiniteSets, TLC

(***************************************************************************)
(* Bounds of the model.                                                    *)
(***************************************************************************)
\* chunks (text deltas and tool-call deltas) of one completion stream, Spec
MaxChunks == 2
\* chat requests served in Spec
MaxRequests == 1
\* chunks of one completion stream in SpecSession
SessionChunks == 1
\* chat requests served in SpecSession
SessionRequests == 6
\* chat requests served in SpecFilter
FilterRequests == 1
\* chat requests served in SpecConcurrent, all of which may run side by side
ConcurrentRequests == 4
\* chunks of one completion stream in SpecConcurrent
ConcurrentChunks == 1
\* chat requests served in SpecEndpoint
EndpointRequests == 2
\* chunks of one completion stream in SpecEndpoint
EndpointChunks == 1
\* documents uploaded in SpecDocuments
MaxDocuments == 2

\* SpecRetrieval: chat requests and requests to /api/search
RetrievalRequests == 1

RetrievalSearches == 1

\* SpecCitations: requests and chunks of one completion stream
CitationRequests == 1

CitationChunks == 2

\* SpecSameSession: requests completed one after another before the
\* concurrent ones, and concurrent requests
EarlierRequests == 4

SameSessionRequests == 3

\* SpecListing: requests to GET /api/documents
ListingRequests == 1

\* SpecCases: calls of create_legal_case_db
MaxCreates == 3

(***************************************************************************)
(* Program constants.                                                      *)
(***************************************************************************)
\* AgentConfig.max_conversation_history
max_conversation_history == 10

\* AgentConfig.max_search_results
max_search_results == 3

\* AgentConfig.context_chars_per_document
context_chars_per_document == 8000

\* Python's None
None == "None"

\* stream-local indices a tool-call delta may carry
StreamIndices == {0, 1, 2}

\* the handlers of db_tools that _execute_tool_call routes to
LocalNames ==
    {"search_cases", "get_case_details", "create_legal_case",
     "update_case_status", "get_attorney_info", "search_invoices",
     "get_invoice", "get_legal_rates"}

\* the handlers of IntegrationActions that _execute_tool_call routes to
ExternalNames ==
    {"call_external_api", "send_email_notification",
     "send_teams_notification", "generate_invoice", "create_legal_case",
     "update_case_status", "search_cases", "get_case_details",
     "get_attorney_info", "get_legal_rates", "calculate_legal_estimate",
     "search_invoices", "get_invoice", "get_client_invoices"}

\* a function name the completion model made up: no handler has it
UnknownNames == {"file_motion"}

FunctionNames == LocalNames \cup ExternalNames \cup UnknownNames

\* the names the completion model emits in Spec: one with a handler, one
\* with none
StreamNames == {"search_cases", "file_motion"}

\* decimal numeral of a small number
Str(n) ==
    CASE n = 0 -> "0" [] n = 1 -> "1" [] n = 2 -> "2" [] n = 3 -> "3"
      [] n = 4 -> "4" [] n = 5 -> "5" [] n = 6 -> "6" [] n = 7 -> "7"
      [] n = 8 -> "8" [] n = 9 -> "9" [] OTHER -> "many"

\* the text of the n-th request's message, as a sequence of words
Message(n) == <<"question", Str(n)>>

\* the text of the n-th delta.content of a stream
Content(n) == <<"text", Str(n)>>

(***************************************************************************)
(* Argument text.  A buffer is a sequence of characters of this alphabet;  *)
(* json.loads accepts "{}" (an object) and "1", "11", ... (a number).      *)
(***************************************************************************)
\* the argument fragment of one tool-call delta in Spec: nothing, the two
\* halves of an object, or a whole object
Fragments == {<<>>, <<"{">>, <<"}">>, <<"{", "}">>}

\* json.loads(buffer): what it returns, or that it raises JSONDecodeError
JsonLoads(buffer) ==
    IF buffer = <<"{", "}">> THEN "object"
    ELSE IF buffer # <<>> /\ \A i \in 1..Len(buffer) : buffer[i] = "1"
         THEN "number"
         ELSE "JSONDecodeError"

VARIABLES
    conversations,      \* self.conversations: session_id -> list of turns
    enable_functions,   \* self.enable_functions
    use_database,       \* whether "from ..tools.database_tools import db_tools" succeeds
    pc,                 \* where chat() is suspended
    req,                \* the arguments of the request chat() is serving
    filter_expr,        \* filter_expr
    results,            \* results, what search() returned
    search_results,     \* search_results, collected from results
    context,            \* context, built from search_results
    messages,           \* messages, given to completions.create
    searches,           \* the queries given to SearchClient.search, in order
    full_response,      \* full_response: the text deltas so far
    tool_calls,         \* tool_calls: the accumulated tool calls
    k,                  \* position of "for tool_call in tool_calls"
    out,                \* the fragments chat() has yielded to its caller
    propagated,         \* an exception left chat()
    failure,            \* what failed in this turn, "none" when nothing did
    nreq,               \* requests started
    nchunks,            \* chunks of the current stream consumed
    stream,             \* history: "closed", "open", "ended" or "failed"
    byIndex,            \* history: per stream index, its deltas put together
    origin,             \* history: per accumulated call, the index that appended it
    effects,            \* history: handler starts and returns of this turn
    allTurns,           \* history: every turn ever appended, per session
    lim,                \* the bounds this specification runs under
    tasks,              \* the chat() generators running side by side
    completed,          \* history: the turns recorded, in completion order
    http,               \* the request /api/chat is serving
    documents,          \* the documents the endpoints have put in the index
    deleted,            \* history: the documents deleted, and on whose request
    listings,           \* history: what GET /api/documents was asked and answered
    cases,              \* the rows of table cases of legal_cases.db, oldest first
    created,            \* history: what create_legal_case_db returned, per call
    clock               \* datetime.now().year

vars == <<conversations, enable_functions, use_database, pc, req,
          filter_expr, results, search_results, context, messages,
          searches, full_response, tool_calls, k, out, propagated, failure, nreq, nchunks, stream,
          byIndex, origin, effects, allTurns, lim, tasks, completed, http,
          documents, deleted, listings, cases, created, clock>>

(***************************************************************************)
(* chat(): the security filter, the search and the context.                *)
(***************************************************************************)
\* user ids get_user_id() hands to chat(): None, the empty string, ids; the
\* last resort of get_user_id() is the first claim's value, whatever it is
UserIds == {None, "", "alice", "bob", "anonymous", "o'brien"}

\* Python truthiness of an Optional[str]
Truthy(s) == s # None /\ s # ""

\* the characters of a string: a single quote is a character of its own,
\* a run of other characters is one element
Chars(s) ==
    CASE s = "" -> <<>>
      [] s = "o'brien" -> <<"o", "'", "brien">>
      [] OTHER -> <<s>>

\* filter_expr = None
NoFilter == <<>>

\* f"allowed_users/any(u: u eq '{principal}')": the characters of the
\* principal go into the string as they are
AnyEq(principal) ==
    <<"allowed_users/any(u: u eq ", "'">> \o Chars(principal) \o <<"'", ")">>

\* filter_expr of chat(), lines 137-142
BuildFilter(user_id, security_enabled) ==
    IF security_enabled /\ Truthy(user_id)
    THEN AnyEq(user_id)
    ELSE IF security_enabled
         THEN AnyEq("anonymous")
         ELSE NoFilter

\* a text is known by the document it comes from and by the characters
\* first..last of that document it holds; a whole document of n characters
Text(of, n) == [of |-> of, first |-> 1, last |-> n]

TextLen(text) == text.last - text.first + 1

\* text[-n:], the last n characters instead of the first
SliceKeepsTail(text, n) ==
    IF TextLen(text) <= n
    THEN text
    ELSE [text EXCEPT !.first = text.last - n + 1]

\* text[:n]
Slice(text, n) ==
    IF TextLen(text) <= n
    THEN text
    ELSE [text EXCEPT !.last = text.first + n - 1]

\* the documents of the search index, an external service: upload_document
\* tags a document with its uploader, or with "anonymous"
Index ==
    {[title |-> "nda.pdf", allowed_users |-> {"alice"},
      content |-> Text("nda.pdf", 8001)],
     [title |-> "lease.pdf", allowed_users |-> {"bob"},
      content |-> Text("lease.pdf", 8000)],
     [title |-> "policy.pdf", allowed_users |-> {"anonymous"},
      content |-> Text("policy.pdf", 50000)],
     [title |-> "will.pdf", allowed_users |-> {"o'brien"},
      content |-> Text("will.pdf", 0)]}

\* how the search service reads the filter: the string literal opens at
\* the first quote and closes at the next one
Operand(filter) == SubSeq(filter, 3, Len(filter))

Closing(filter) ==
    CHOOSE i \in 1..Len(Operand(filter)) :
        /\ Operand(filter)[i] = "'"
        /\ \A j \in 1..(i - 1) : Operand(filter)[j] # "'"

Literal(filter) == SubSeq(Operand(filter), 1, Closing(filter) - 1)

\* after the literal the expression has to end with the parenthesis
WellFormed(filter) ==
    SubSeq(Operand(filter), Closing(filter) + 1, Len(Operand(filter)))
        = <<")">>

\* whether the index admits a document under a filter: any(u: u eq 'p')
\* holds of a collection that has p as an element
Matches(filter, doc) ==
    \/ filter = NoFilter
    \/ /\ filter # NoFilter
       /\ WellFormed(filter)
       /\ \E u \in doc.allowed_users : Chars(u) = Literal(filter)

\* the fields search() is asked to select (line 152)
Hit(doc) == [title |-> doc.title, content |-> doc.content]

\* rankings of at most top different documents
Rankings(docs, top) ==
    {ranking \in UNION {[1..n -> docs] : n \in 0..top} :
        \A i, j \in DOMAIN ranking : ranking[i] = ranking[j] => i = j}

\* what search() may return under a filter: any ranking of admitted
\* documents, none included; the service rejects a filter that is not well
\* formed and search() raises
SearchOutcomes(filter, top) ==
    IF filter # NoFilter /\ ~WellFormed(filter)
    THEN {}
    ELSE {[i \in DOMAIN ranking |-> Hit(ranking[i])] :
             ranking \in Rankings({d \in Index : Matches(filter, d)}, top)}

\* what generate_embedding can meet: no endpoint configured, a token or an
\* embeddings call that raises, an embedding that comes back empty, a vector
EmbeddingOutcomes == {"unconfigured", "raises", "empty", "vector"}

\* generate_embedding: the vector, or [] from the first return and from the
\* except clause
GenerateEmbedding(provider) ==
    IF provider = "vector" THEN <<1, 2>> ELSE <<>>

\* the search of chat(), lines 146-153, as the search client receives it
ChatSearch(message) ==
    [by |-> "chat",
     search_text |-> message,
     query_type |-> "semantic",
     vector_queries |-> <<>>,
     top |-> max_search_results]

\* a collecting that lets the first result of the search go
CollectSkipsFirst(hits) ==
    [i \in 1..(Len(hits) - 1) |->
        [title |-> hits[i + 1].title,
         content |-> Slice(hits[i + 1].content, context_chars_per_document)]]

\* "for result in results: search_results.append({...})", lines 155-162
CollectResults(hits) ==
    [i \in DOMAIN hits |->
        [title |-> hits[i].title,
         content |-> Slice(hits[i].content, context_chars_per_document)]]

\* the string "No relevant documents found."
NoDocuments == [sentence |-> "No relevant documents found.", parts |-> <<>>]

\* f"[DOCUMENT {idx}: {title}]\n{content}\n"
ContextPart(idx, result) ==
    [idx |-> idx,
     title |-> result.title,
     content |-> Slice(result.content, context_chars_per_document)]

\* "\n".join(context_parts) whatever the results, the empty string for none
JoinsWhateverFound(collected) ==
    [sentence |-> "",
     parts |-> [i \in 1..Len(collected) |-> ContextPart(i, collected[i])]]

\* _build_context: the sentence, or the parts joined in the order of
\* enumerate(search_results, 1)
BuildContext(collected) ==
    IF collected = <<>>
    THEN NoDocuments
    ELSE [sentence |-> "",
          parts |-> [i \in 1..Len(collected) |-> ContextPart(i, collected[i])]]

\* _build_messages: the system message, the conversation, and the user
\* message, whose text embeds the context and the question in both branches
BuildMessages(user_message, ctx, conversation) ==
    <<[role |-> "system", content |-> <<"AGENT_INSTRUCTIONS">>]>>
        \o conversation
        \o <<[role |-> "user",
              content |-> [context |-> ctx, question |-> user_message]]>>

(***************************************************************************)
(* chat(): what it yields.                                                 *)
(***************************************************************************)
TextFragment(content) == [kind |-> "text", text |-> content]

Banner == [kind |-> "banner", text |-> <<"Executing actions...">>]

\* a chat() without its except clause: the exception reaches the caller
ChatRaises(yielded, e) == [out |-> yielded, propagated |-> TRUE]

\* the except clause of chat(): the error is yielded, nothing is raised
ChatExcept(yielded, e) ==
    [out |-> Append(yielded, [kind |-> "error", text |-> <<e>>]),
     propagated |-> FALSE]

(***************************************************************************)
(* chat(): accumulation of the tool-call deltas of the stream.             *)
(***************************************************************************)
\* the id the completion model gives the call at stream index i
CallId(i) ==
    CASE i = 0 -> "call_0" [] i = 1 -> "call_1" [] i = 2 -> "call_2"
      [] OTHER -> "call_n"

\* a tool-call delta: the first one at an index carries id and name
Delta(i, first, name, fragment) ==
    [index |-> i,
     id |-> IF first THEN CallId(i) ELSE None,
     name |-> IF first THEN name ELSE None,
     arguments |-> fragment]

\* one tool_call_chunk of delta.tool_calls
Accumulate(calls, d) ==
    IF d.index >= Len(calls)
    THEN Append(calls, [id |-> d.id,
                        type |-> "function",
                        name |-> IF Truthy(d.name) THEN d.name ELSE "",
                        arguments |-> d.arguments])
    ELSE IF d.arguments # <<>>
         THEN [calls EXCEPT ![d.index + 1].arguments = @ \o d.arguments]
         ELSE calls

\* history: the deltas of each stream index put together, keyed by index
Collect(seen, d) ==
    IF d.index \in DOMAIN seen
    THEN [seen EXCEPT ![d.index].arguments = @ \o d.arguments]
    ELSE seen @@ (d.index :> [id |-> d.id,
                              type |-> "function",
                              name |-> IF Truthy(d.name) THEN d.name ELSE "",
                              arguments |-> d.arguments])

(***************************************************************************)
(* chat(): the conversation history.                                       *)
(***************************************************************************)
LastN(s, n) == IF Len(s) <= n THEN s ELSE SubSeq(s, Len(s) - n + 1, Len(s))

\* a trim that keeps the oldest turns, conversation[:max], where the code
\* keeps the newest
TrimKeepsOldest(conversation) ==
    IF Len(conversation) > max_conversation_history
    THEN SubSeq(conversation, 1, max_conversation_history)
    ELSE conversation

\* a trim that cuts one turn too few, where the code cuts to the maximum
TrimSplitsPair(conversation) ==
    IF Len(conversation) > max_conversation_history
    THEN LastN(conversation, max_conversation_history + 1)
    ELSE conversation

\* conversation[:] = conversation[-max_conversation_history:]
Trim(conversation) ==
    IF Len(conversation) > max_conversation_history
    THEN LastN(conversation, max_conversation_history)
    ELSE conversation

UserTurn(message) == [role |-> "user", content |-> message]

AssistantTurn(response) == [role |-> "assistant", content |-> response]

\* "Update conversation history" and "Trim conversation history"
UpdateHistory(conversation, message, response) ==
    Trim(conversation \o <<UserTurn(message), AssistantTurn(response)>>)

(***************************************************************************)
(* _execute_tool_call.                                                     *)
(***************************************************************************)
\* a resolution that tries the external handlers first
ResolveExternalFirst(function_name, database) ==
    IF function_name \in ExternalNames
    THEN [via |-> "external", function |-> function_name]
    ELSE IF database /\ function_name \in LocalNames
         THEN [via |-> "local", function |-> function_name]
         ELSE [via |-> "unknown", function |-> function_name]

\* the if/elif chain of lines 542-610: the handler a function name gets
Resolve(function_name, database) ==
    IF database /\ function_name \in LocalNames
    THEN [via |-> "local", function |-> function_name]
    ELSE IF function_name \in ExternalNames
         THEN [via |-> "external", function |-> function_name]
         ELSE [via |-> "unknown", function |-> function_name]

\* the HTML blocks _execute_tool_call returns
ActionCompleted(function_name, message) ==
    [kind |-> "result", status |-> "Action Completed",
     function |-> function_name, text |-> message]

ActionFailed(function_name, error) ==
    [kind |-> "result", status |-> "Action Failed",
     function |-> function_name, text |-> error]

\* the blocks of the two except clauses do not name the function
InvalidArguments ==
    [kind |-> "result", status |-> "Invalid Arguments",
     function |-> None,
     text |-> <<"Failed to parse function arguments">>]

ExecutionError(e) ==
    [kind |-> "result", status |-> "Execution Error",
     function |-> None, text |-> <<e>>]

\* _execute_tool_call returns a block to its caller
Returns(block) == [escaped |-> FALSE, error |-> "", block |-> block]

\* what an awaited handler may do: return a result dict, with or without
\* "message" and "error", or raise
HandlerOutcomes ==
    {[raised |-> FALSE, success |-> TRUE, message |-> "Found 1 case(s)", error |-> None],
     [raised |-> FALSE, success |-> TRUE, message |-> None, error |-> None],
     [raised |-> FALSE, success |-> FALSE, message |-> None, error |-> "Case not found"],
     [raised |-> FALSE, success |-> FALSE, message |-> None, error |-> None],
     [raised |-> TRUE, success |-> FALSE, message |-> None, error |-> "ClientError"]}

(***************************************************************************)
(* The handlers: the dicts they return, as the value of "success" and the  *)
(* keys of the dict.                                                       *)
(***************************************************************************)
Dict(success, keys) == [raised |-> FALSE, success |-> success, keys |-> keys]

\* the call of the handler raises: no handler takes the arguments given
Raises == [raised |-> TRUE, success |-> FALSE, keys |-> {}]

\* the returns of the handlers of db_tools, and the return of the "except
\* Exception" clause of every handler of IntegrationActions
Succeeded == Dict(TRUE, {"success", "message", "data"})

Failed == Dict(FALSE, {"success", "error"})

\* call_external_api: the status of the response decides "success"; a
\* client error gives "error"
ApiResults ==
    {Dict(TRUE, {"success", "status_code", "data"}),
     Dict(FALSE, {"success", "status_code", "data"}),
     Dict(FALSE, {"success", "error", "data"})}

\* the handlers of IntegrationActions that return what call_external_api
\* returned
PassesOn ==
    {"send_teams_notification", "get_case_details", "get_attorney_info",
     "get_legal_rates", "search_invoices", "get_invoice",
     "get_client_invoices"}

\* those that make their own dict of a successful call, and return what
\* call_external_api returned of a failed one
Rewraps ==
    {"create_legal_case", "update_case_status", "search_cases",
     "calculate_legal_estimate"}

\* what the handler Resolve has chosen may return
HandlerResults(handler) ==
    IF handler.via = "local" THEN {Succeeded, Failed, Raises}
    ELSE IF handler.function = "call_external_api"
    THEN ApiResults \cup {Raises}
    ELSE IF handler.function \in PassesOn
    THEN ApiResults \cup {Failed, Raises}
    ELSE IF handler.function \in Rewraps
    THEN {Succeeded, Failed, Raises} \cup {r \in ApiResults : ~r.success}
    ELSE {Succeeded, Failed, Raises}

\* what _execute_tool_call sees of a result: result.get("success"),
\* result.get("message"), result.get("error"), or the exception
OutcomeOf(result) ==
    [raised |-> result.raised,
     success |-> result.success,
     message |-> IF "message" \in result.keys
                 THEN "Found 1 case(s)" ELSE None,
     error |-> IF result.raised THEN "ClientError"
               ELSE IF "error" \in result.keys
               THEN "Case not found" ELSE None]

\* a router without "except json.JSONDecodeError": the parse error leaves
\* _execute_tool_call
PlanLetsParseErrorRaise(tool_call, database) ==
    LET arguments == JsonLoads(tool_call.arguments)
        handler == Resolve(tool_call.name, database)
    IN  IF arguments = "JSONDecodeError"
        THEN [await |-> FALSE, handler |-> handler,
              result |-> [escaped |-> TRUE, error |-> "JSONDecodeError",
                          block |-> InvalidArguments]]
        ELSE IF handler.via = "unknown"
        THEN [await |-> FALSE, handler |-> handler,
              result |-> Returns(ActionFailed(tool_call.name,
                                    <<"Unknown function", tool_call.name>>))]
        ELSE IF arguments # "object"
        THEN [await |-> FALSE, handler |-> handler,
              result |-> Returns(ExecutionError("TypeError"))]
        ELSE [await |-> TRUE, handler |-> handler,
              result |-> Returns(InvalidArguments)]

\* lines 525-610 up to the await of the handler: either what the function
\* returns at once, or the handler to await
Plan(tool_call, database) ==
    LET arguments == JsonLoads(tool_call.arguments)
        handler == Resolve(tool_call.name, database)
    IN  IF arguments = "JSONDecodeError"
        THEN [await |-> FALSE, handler |-> handler,
              result |-> Returns(InvalidArguments)]
        ELSE IF handler.via = "unknown"
        THEN [await |-> FALSE, handler |-> handler,
              result |-> Returns(ActionFailed(tool_call.name,
                                    <<"Unknown function", tool_call.name>>))]
        ELSE IF arguments # "object"
        THEN [await |-> FALSE, handler |-> handler,
              result |-> Returns(ExecutionError("TypeError"))]
        ELSE [await |-> TRUE, handler |-> handler,
              result |-> Returns(InvalidArguments)]

\* a router without "except Exception": what the handler raises leaves
\* _execute_tool_call
FormatLetsRaise(function_name, outcome) ==
    IF outcome.raised
    THEN [escaped |-> TRUE, error |-> outcome.error,
          block |-> ExecutionError(outcome.error)]
    ELSE IF outcome.success
    THEN Returns(ActionCompleted(function_name,
            IF outcome.message = None THEN <<"Success">> ELSE <<outcome.message>>))
    ELSE Returns(ActionFailed(function_name,
            IF outcome.error = None THEN <<"Unknown error">> ELSE <<outcome.error>>))

\* lines 612-678 once the handler is back
Format(function_name, outcome) ==
    IF outcome.raised
    THEN Returns(ExecutionError(outcome.error))
    ELSE IF outcome.success
    THEN Returns(ActionCompleted(function_name,
            IF outcome.message = None THEN <<"Success">> ELSE <<outcome.message>>))
    ELSE Returns(ActionFailed(function_name,
            IF outcome.error = None THEN <<"Unknown error">> ELSE <<outcome.error>>))

(***************************************************************************)
(* chat(): one action per stretch of code between suspension points.       *)
(*   pc = "idle"     no request is being served                            *)
(*   pc = "stream"   suspended in "async for chunk in response", or at the *)
(*                   yield of a text delta                                 *)
(*   pc = "tools"    suspended at the yield of the banner or of a result   *)
(*   pc = "handler"  suspended in "await self._execute_tool_call", in the  *)
(*                   await of the handler                                  *)
(*   pc = "done"     the generator has ended                               *)
(***************************************************************************)
Phase ==
    CASE pc = "idle" -> "IDLE"
      [] pc = "stream" -> "STREAMING"
      [] pc \in {"tools", "handler"} -> "TOOL_RESOLUTION"
      [] OTHER -> "DONE"

(***************************************************************************)
(* The table cases of legal_cases.db.  A row keeps the two columns the     *)
(* schema constrains, id (PRIMARY KEY) and case_number (UNIQUE NOT NULL);  *)
(* a case number is the text of the f-string, the year, the dashes and     *)
(* the digits one element each.                                            *)
(***************************************************************************)
\* the decimal digits of n, most significant first
RECURSIVE Digits(_)
Digits(n) == IF n < 10 THEN <<n>> ELSE Append(Digits(n \div 10), n % 10)

\* "{next_num:05d}": at least five digits, zeros in front
Padded(n) ==
    LET d == Digits(n)
    IN  IF Len(d) >= 5 THEN d ELSE [i \in 1..(5 - Len(d)) |-> 0] \o d

\* f"{current_year}-CV-{next_num:05d}"
CaseNumber(year, n) == <<year, "-", "CV", "-">> \o Padded(n)

\* case_number LIKE '{current_year}-%'
Like(case_number, year) ==
    /\ Len(case_number) >= 2
    /\ case_number[1] = year
    /\ case_number[2] = "-"

\* f"case-{...}", the id of a row
CaseId(suffix) == <<"case-", suffix>>

\* the years datetime.now().year goes through
Years == 2025..2026

\* the mock cases create_database() inserts
Seed ==
    << [id |-> CaseId("001"), case_number |-> CaseNumber(2025, 10001)],
       [id |-> CaseId("002"), case_number |-> CaseNumber(2025, 10002)],
       [id |-> CaseId("003"), case_number |-> CaseNumber(2025, 10003)] >>

\* the database after setup_database.py has run
Seeded ==
    /\ cases = Seed
    /\ created = <<>>
    /\ clock = 2025

\* a table whose only constraint is the primary key
KeepsPrimaryKeyOnly(table, row) ==
    \A i \in 1..Len(table) : table[i].id # row.id

\* "id TEXT PRIMARY KEY, case_number TEXT UNIQUE NOT NULL": whether the
\* INSERT of row is accepted
Insertable(table, row) ==
    \A i \in 1..Len(table) :
        /\ table[i].id # row.id
        /\ table[i].case_number # row.case_number

config == <<enable_functions, use_database, lim>>

store == <<conversations, allTurns>>

\* the state outside the one chat() whose steps the actions below are
\* the cases of legal_cases.db and the calendar
casedb == <<cases, created, clock>>

elsewhere == <<tasks, completed, http, documents, deleted, listings, casedb>>

request == <<req, filter_expr, results, search_results, context, messages,
             searches, nreq>>

accumulated == <<full_response, tool_calls, nchunks, byIndex, origin>>

\* the state of the one chat() most actions below are steps of
single == <<pc, req, filter_expr, results, search_results, context, messages,
            searches, accumulated, k, out, propagated, failure, stream, effects>>

\* "if session_id not in self.conversations: self.conversations[session_id] = []"
GetOrCreate(convs, session_id) ==
    IF session_id \in DOMAIN convs THEN convs ELSE convs @@ (session_id :> <<>>)

\* the locals of chat() as a request starts
Locals ==
    /\ full_response' = <<>>
    /\ tool_calls' = <<>>
    /\ k' = 0
    /\ nchunks' = 0
    /\ byIndex' = <<>>
    /\ origin' = <<>>
    /\ effects' = <<>>

\* a request arrives: lines 127-187, up to the stream being open
Begin(session_id, user_id, security_enabled, functions) ==
    /\ conversations' = GetOrCreate(conversations, session_id)
    /\ allTurns' = GetOrCreate(allTurns, session_id)
    /\ req' = [message |-> Message(nreq + 1),
               session_id |-> session_id,
               user_id |-> user_id,
               security_enabled |-> security_enabled,
               tools |-> enable_functions /\ functions]
    /\ filter_expr' = BuildFilter(user_id, security_enabled)
    /\ \E provider \in lim.embedding :
          searches' = Append(searches,
                             [provider |-> provider] @@ ChatSearch(req'.message))
    /\ results' \in SearchOutcomes(filter_expr', max_search_results)
    /\ search_results' = CollectResults(results')
    /\ context' = BuildContext(search_results')
    /\ messages' = BuildMessages(req'.message, context',
                                 conversations'[session_id])
    /\ pc' = "stream"
    /\ stream' = "open"
    /\ nreq' = nreq + 1
    /\ out' = <<>>
    /\ propagated' = FALSE
    /\ failure' = "none"
    /\ Locals
    /\ UNCHANGED <<config, tasks, completed>>

\* chat() is called with a session id
StartTurn ==
    /\ pc \in {"idle", "done"}
    /\ nreq < lim.reqs
    /\ \E session_id \in lim.sessions, user_id \in lim.users,
          security_enabled \in lim.security, functions \in BOOLEAN :
          Begin(session_id, user_id, security_enabled, functions)
    /\ UNCHANGED <<http, listings, casedb, documents, deleted>>

\* a request arrives and search() (line 146) or completions.create (line
\* 187) raises: the except clause of lines 239-241
StartTurnFails ==
    /\ pc \in {"idle", "done"}
    /\ nreq < lim.reqs
    /\ \E session_id \in lim.sessions, user_id \in lim.users,
          security_enabled \in lim.security :
          /\ conversations' = GetOrCreate(conversations, session_id)
          /\ allTurns' = GetOrCreate(allTurns, session_id)
          /\ req' = [message |-> Message(nreq + 1),
                     session_id |-> session_id,
                     user_id |-> user_id,
                     security_enabled |-> security_enabled,
                     tools |-> FALSE]
          /\ filter_expr' = BuildFilter(user_id, security_enabled)
    /\ \E provider \in lim.embedding :
          searches' = Append(searches,
                             [provider |-> provider] @@ ChatSearch(req'.message))
    /\ \/ /\ failure' = "search"
          /\ results' = <<>>
          /\ search_results' = <<>>
          /\ context' = <<>>
          /\ messages' = <<>>
       \/ /\ failure' = "transport"
          /\ results' \in SearchOutcomes(filter_expr', max_search_results)
          /\ search_results' = CollectResults(results')
          /\ context' = BuildContext(search_results')
          /\ messages' = BuildMessages(req'.message, context',
                                       conversations'[req'.session_id])
    /\ out' = ChatExcept(<<>>, failure').out
    /\ propagated' = ChatExcept(<<>>, failure').propagated
    /\ pc' = "done"
    /\ stream' = IF failure' = "search" THEN "closed" ELSE "failed"
    /\ nreq' = nreq + 1
    /\ Locals
    /\ UNCHANGED <<config, elsewhere>>

\* a chunk with delta.content: lines 218-221
TextDelta ==
    /\ pc = "stream"
    /\ nchunks < lim.chunks
    /\ nchunks' = nchunks + 1
    /\ LET content == Content(Len(full_response) \div 2 + 1)
       IN  /\ full_response' = full_response \o content
           /\ out' = Append(out, TextFragment(content))
    /\ UNCHANGED <<config, elsewhere, store, request, pc, stream, tool_calls, k,
                   propagated, failure, byIndex, origin, effects>>

\* a chunk with delta.tool_calls: lines 200-215
ToolDelta ==
    /\ pc = "stream"
    /\ req.tools
    /\ nchunks < lim.chunks
    /\ \E i \in StreamIndices, name \in StreamNames, fragment \in Fragments :
          LET first == i \notin DOMAIN byIndex
              d == Delta(i, first, name, fragment)
          IN  /\ tool_calls' = Accumulate(tool_calls, d)
              /\ byIndex' = Collect(byIndex, d)
              /\ origin' = IF d.index >= Len(tool_calls)
                            THEN Append(origin, i) ELSE origin
    /\ nchunks' = nchunks + 1
    /\ UNCHANGED <<config, elsewhere, store, request, pc, stream, full_response, k, out,
                   propagated, failure, effects>>

RECURSIVE Yielded(_)
\* everything a sequence of fragments shows, banner and blocks included
Yielded(fragments) ==
    IF fragments = <<>> THEN <<>>
    ELSE (IF fragments[1].kind = "text"
          THEN fragments[1].text
          ELSE <<fragments[1].kind>>) \o Yielded(Tail(fragments))

\* a chat() that adds whatever it yields to full_response
RecordsAllYielded ==
    /\ conversations' =
          [conversations EXCEPT ![req.session_id] =
              UpdateHistory(@, req.message, Yielded(out))]
    /\ allTurns' =
          [allTurns EXCEPT ![req.session_id] =
              @ \o <<UserTurn(req.message), AssistantTurn(Yielded(out))>>]

\* lines 231-237 on the session of the request
Record ==
    /\ conversations' =
          [conversations EXCEPT ![req.session_id] =
              UpdateHistory(@, req.message, full_response)]
    /\ allTurns' =
          [allTurns EXCEPT ![req.session_id] =
              @ \o <<UserTurn(req.message), AssistantTurn(full_response)>>]

\* an except clause that stores what the turn had got to
StreamFailsStoresPartial ==
    /\ pc = "stream"
    /\ failure' = "transport"
    /\ out' = ChatExcept(out, "transport").out
    /\ propagated' = ChatExcept(out, "transport").propagated
    /\ pc' = "done"
    /\ stream' = "failed"
    /\ Record
    /\ UNCHANGED <<config, elsewhere, request, accumulated, k, effects>>

\* the stream raises: the except clause of lines 239-241
StreamFails ==
    /\ pc = "stream"
    /\ failure' = "transport"
    /\ out' = ChatExcept(out, "transport").out
    /\ propagated' = ChatExcept(out, "transport").propagated
    /\ pc' = "done"
    /\ stream' = "failed"
    /\ UNCHANGED <<config, elsewhere, store, request, accumulated, k, effects>>

\* a chat() that goes to tool resolution whatever was accumulated
AlwaysToolCalls == TRUE

\* "if tool_calls:", line 224
HasToolCalls == tool_calls # <<>>

\* the stream ends with no tool call accumulated: lines 224, 231-237
StreamEndsPlain ==
    /\ pc = "stream"
    /\ ~HasToolCalls
    /\ Record
    /\ pc' = "done"
    /\ stream' = "ended"
    /\ UNCHANGED <<config, elsewhere, request, accumulated, k, out, propagated, failure,
                   effects>>

\* the stream ends with tool calls accumulated: lines 224-225
StreamEndsWithCalls ==
    /\ pc = "stream"
    /\ HasToolCalls
    /\ out' = Append(out, Banner)
    /\ k' = 1
    /\ pc' = "tools"
    /\ stream' = "ended"
    /\ UNCHANGED <<config, elsewhere, store, request, accumulated, propagated, failure,
                   effects>>

\* a loop that executes the first call again and again
FirstCall == IF k = 0 THEN k ELSE 1

\* the call "for tool_call in tool_calls" executes next
NextCall == k

\* a loop that gives up the turn at the first call that fails
ResumeStopsAtFailure(result) ==
    IF result.block.status # "Action Completed"
    THEN /\ out' = Append(out, result.block)
         /\ propagated' = propagated
         /\ failure' = "tool"
         /\ pc' = "done"
         /\ k' = k
    ELSE /\ out' = Append(out, result.block)
         /\ propagated' = propagated
         /\ failure' = failure
         /\ pc' = "tools"
         /\ k' = k + 1

\* chat() once "await self._execute_tool_call(tool_call)" is over: the
\* block is yielded (line 229), or what the function raised reaches the
\* except clause of lines 239-241
Resume(result) ==
    IF result.escaped
    THEN /\ out' = ChatExcept(out, result.error).out
         /\ propagated' = ChatExcept(out, result.error).propagated
         /\ failure' = "tool"
         /\ pc' = "done"
         /\ k' = k
    ELSE /\ out' = Append(out, result.block)
         /\ propagated' = propagated
         /\ failure' = failure
         /\ pc' = "tools"
         /\ k' = k + 1

\* line 228 for a call that reaches no handler, and line 229
ToolReturnsAtOnce ==
    /\ pc = "tools"
    /\ k <= Len(tool_calls)
    /\ LET plan == Plan(tool_calls[NextCall], use_database)
       IN  /\ ~plan.await
           /\ Resume(plan.result)
    /\ UNCHANGED <<config, elsewhere, store, request, accumulated, stream, effects>>

\* line 228 up to the await of the handler
ToolStart ==
    /\ pc = "tools"
    /\ k <= Len(tool_calls)
    /\ LET plan == Plan(tool_calls[NextCall], use_database)
       IN  /\ plan.await
           /\ effects' = Append(effects, [event |-> "start", call |-> NextCall,
                                          handler |-> plan.handler])
    /\ pc' = "handler"
    /\ UNCHANGED <<config, elsewhere, store, request, accumulated, stream, k, out,
                   propagated, failure>>

\* the handler is back: the rest of line 228, and line 229
ToolReturn ==
    /\ pc = "handler"
    /\ \E outcome \in HandlerOutcomes,
          result \in HandlerResults(Plan(tool_calls[NextCall],
                                         use_database).handler) :
          /\ outcome = OutcomeOf(result)
          /\ effects' = Append(effects, [event |-> "return", call |-> NextCall,
                                         outcome |-> outcome,
                                         result |-> result])
          /\ Resume(Format(tool_calls[NextCall].name, outcome))
    /\ UNCHANGED <<config, elsewhere, store, request, accumulated, stream>>

\* the loop over tool_calls is over: lines 231-237
Finish ==
    /\ pc = "tools"
    /\ k > Len(tool_calls)
    /\ Record
    /\ pc' = "done"
    /\ UNCHANGED <<config, elsewhere, request, accumulated, stream, k, out, propagated,
                   failure, effects>>

(***************************************************************************)
(* Spec: the agent after initialize(), serving chat requests.              *)
(***************************************************************************)
Idle ==
    /\ conversations = <<>>
    /\ pc = "idle"
    /\ req = [message |-> <<>>, session_id |-> None, user_id |-> None,
              security_enabled |-> TRUE, tools |-> FALSE]
    /\ filter_expr = NoFilter
    /\ results = <<>>
    /\ search_results = <<>>
    /\ context = <<>>
    /\ messages = <<>>
    /\ searches = <<>>
    /\ full_response = <<>>
    /\ tool_calls = <<>>
    /\ k = 0
    /\ out = <<>>
    /\ propagated = FALSE
    /\ failure = "none"
    /\ nreq = 0
    /\ nchunks = 0
    /\ stream = "closed"
    /\ byIndex = <<>>
    /\ origin = <<>>
    /\ effects = <<>>
    /\ allTurns = <<>>
    /\ tasks = <<>>
    /\ completed = <<>>
    /\ http = [session_id |-> None]
    /\ documents = {}
    /\ deleted = {}
    /\ listings = <<>>
    /\ Seeded

Init ==
    /\ Idle
    /\ enable_functions \in BOOLEAN
    /\ use_database \in BOOLEAN
    /\ lim = [reqs |-> MaxRequests, chunks |-> MaxChunks,
              sessions |-> {"s1"}, users |-> {"alice"}, security |-> {TRUE},
              embedding |-> {"vector"}]

Next ==
    \/ StartTurn
    \/ StartTurnFails
    \/ TextDelta
    \/ ToolDelta
    \/ StreamFails
    \/ StreamEndsPlain
    \/ StreamEndsWithCalls
    \/ ToolReturnsAtOnce
    \/ ToolStart
    \/ ToolReturn
    \/ Finish

Spec == Init /\ [][Next]_vars

(***************************************************************************)
(* SpecSession: the agent with function calling switched off, so that a    *)
(* stream carries text only, serving enough requests on one session for    *)
(* the history to be trimmed.                                              *)
(***************************************************************************)
InitSession ==
    /\ Idle
    /\ enable_functions = FALSE
    /\ use_database \in BOOLEAN
    /\ lim = [reqs |-> SessionRequests, chunks |-> SessionChunks,
              sessions |-> {"s1"}, users |-> {"alice"}, security |-> {TRUE},
              embedding |-> {"vector"}]

NextSession ==
    \/ StartTurn
    \/ StartTurnFails
    \/ TextDelta
    \/ StreamFails
    \/ StreamEndsPlain

SpecSession == InitSession /\ [][NextSession]_vars

(***************************************************************************)
(* SpecFilter: requests of every user id, with and without security.       *)
(***************************************************************************)
InitFilter ==
    /\ Idle
    /\ enable_functions = FALSE
    /\ use_database = TRUE
    /\ lim = [reqs |-> FilterRequests, chunks |-> SessionChunks,
              sessions |-> {"s1"}, users |-> UserIds, security |-> BOOLEAN,
              embedding |-> {"vector"}]

NextFilter ==
    \/ StartTurn
    \/ StartTurnFails
    \/ TextDelta
    \/ StreamFails
    \/ StreamEndsPlain

SpecFilter == InitFilter /\ [][NextFilter]_vars

(***************************************************************************)
(* SpecDispatch: _execute_tool_call on every function name and every kind  *)
(* of argument text.  The initial states are those of chat() suspended at  *)
(* the yield of the banner (line 225), the stream having delivered one     *)
(* call of any name and arguments, alone or followed by a second call.     *)
(***************************************************************************)
\* argument texts: an object, a number, nothing, half an object
DispatchBuffers == {<<"{", "}">>, <<"1">>, <<>>, <<"{">>}

FollowingCall ==
    [id |-> CallId(1), type |-> "function", name |-> "get_legal_rates",
     arguments |-> <<"{", "}">>]

\* the text the stream delivered before its tool calls: none, or one delta
DispatchTexts == {<<>>, Content(1)}

InitDispatch ==
    /\ enable_functions = TRUE
    /\ use_database \in BOOLEAN
    /\ lim = [reqs |-> 1, chunks |-> 3, sessions |-> {"s1"},
              users |-> {"alice"}, security |-> {TRUE},
              embedding |-> {"vector"}]
    /\ conversations = ("s1" :> <<>>)
    /\ allTurns = ("s1" :> <<>>)
    /\ pc = "tools"
    /\ req = [message |-> Message(1), session_id |-> "s1",
              user_id |-> "alice", security_enabled |-> TRUE, tools |-> TRUE]
    /\ filter_expr = BuildFilter("alice", TRUE)
    /\ results = <<>>
    /\ search_results = CollectResults(results)
    /\ context = BuildContext(search_results)
    /\ messages = BuildMessages(req.message, context, conversations["s1"])
    /\ searches = <<[provider |-> "vector"] @@ ChatSearch(req.message)>>
    /\ \E name \in FunctionNames, arguments \in DispatchBuffers :
          LET call == [id |-> CallId(0), type |-> "function", name |-> name,
                       arguments |-> arguments]
          IN  \/ /\ tool_calls = <<call>>
                 /\ byIndex = (0 :> call)
                 /\ origin = <<0>>
              \/ /\ tool_calls = <<call, FollowingCall>>
                 /\ byIndex = (0 :> call) @@ (1 :> FollowingCall)
                 /\ origin = <<0, 1>>
    /\ \E content \in DispatchTexts :
          /\ full_response = content
          /\ out = IF content = <<>> THEN <<Banner>>
                   ELSE <<TextFragment(content), Banner>>
          /\ nchunks = Len(tool_calls) + (IF content = <<>> THEN 0 ELSE 1)
    /\ k = 1
    /\ propagated = FALSE
    /\ failure = "none"
    /\ nreq = 1
    /\ stream = "ended"
    /\ effects = <<>>
    /\ tasks = <<>>
    /\ completed = <<>>
    /\ http = [session_id |-> None]
    /\ documents = {}
    /\ deleted = {}
    /\ listings = <<>>
    /\ Seeded

NextDispatch ==
    \/ ToolReturnsAtOnce
    \/ ToolStart
    \/ ToolReturn
    \/ Finish

SpecDispatch == InitDispatch /\ [][NextDispatch]_vars

(***************************************************************************)
(* SpecEndpoint: POST /api/chat.  generate_stream picks the session id,    *)
(* runs chat() under it and passes on what chat() yields; the response is  *)
(* a StreamingResponse over generate_stream.                               *)
(***************************************************************************)
\* ChatMessage.session_id: left out, empty, or the id of a session
RequestedSessionIds == {None, "", "s1"}

\* str(uuid.uuid4()) for the n-th request: a string no request has sent
\* and no other call has returned
Uuid(n) ==
    CASE n = 1 -> "uuid-1"
      [] n = 2 -> "uuid-2"
      [] n = 3 -> "uuid-3"
      [] OTHER -> "uuid-n"

\* session_id = message.session_id or str(uuid.uuid4())
SessionFor(requested, n) == IF Truthy(requested) THEN requested ELSE Uuid(n)

\* StreamingResponse(generate_stream(), media_type="text/plain"): the
\* media type, and as body the chunks of chat() as they are
Response == [media_type |-> "text/plain", body |-> out]

\* /api/chat up to the stream of the completion being open
ChatEndpoint ==
    /\ pc \in {"idle", "done"}
    /\ nreq < lim.reqs
    /\ \E requested \in RequestedSessionIds, user_id \in lim.users,
          security_enabled \in lim.security, functions \in BOOLEAN :
          /\ Begin(SessionFor(requested, nreq + 1), user_id,
                   security_enabled, functions)
          /\ http' = [session_id |-> requested]
    /\ UNCHANGED <<documents, deleted, listings, casedb>>

InitEndpoint ==
    /\ Idle
    /\ enable_functions = FALSE
    /\ use_database = TRUE
    /\ lim = [reqs |-> EndpointRequests, chunks |-> EndpointChunks,
              sessions |-> {}, users |-> {None, "alice"},
              security |-> {TRUE},
              embedding |-> {"vector"}]

NextEndpoint ==
    \/ ChatEndpoint
    \/ TextDelta
    \/ StreamFails
    \/ StreamEndsPlain

SpecEndpoint == InitEndpoint /\ [][NextEndpoint]_vars

(***************************************************************************)
(* SpecDocuments: POST /api/upload and DELETE /api/documents/{id}, each    *)
(* with the user id get_user_id() finds in the request.                    *)
(***************************************************************************)
\* doc_id = str(uuid.uuid4()) of the n-th upload
DocId(n) ==
    CASE n = 1 -> "doc-1"
      [] n = 2 -> "doc-2"
      [] OTHER -> "doc-3"

\* the users of the endpoints: no user id, and two ids
Requesters == {None, "alice", "bob"}

\* "owner_id": user_id or "anonymous", "allowed_users": [user_id] if user_id
\* else ["anonymous"]
Document(doc_id, user_id) ==
    [id |-> doc_id,
     owner_id |-> IF Truthy(user_id) THEN user_id ELSE "anonymous",
     allowed_users |-> IF Truthy(user_id) THEN {user_id} ELSE {"anonymous"}]

\* the ids of the documents uploaded so far
Uploaded == {d.id : d \in documents} \cup {x.document.id : x \in deleted}

\* upload_document: the document is tagged and indexed
UploadDocument ==
    /\ Cardinality(Uploaded) < MaxDocuments
    /\ \E user_id \in Requesters :
          documents' = documents \cup
             {Document(DocId(Cardinality(Uploaded) + 1), user_id)}
    /\ UNCHANGED <<config, single, store, nreq, tasks, completed, http, listings, casedb,
                   deleted>>

\* "if user_id and document_owner and user_id != document_owner: raise
\* HTTPException(status_code=403)": whether the request gets past it
MayDelete(user_id, document_owner) ==
    ~(Truthy(user_id) /\ Truthy(document_owner) /\ user_id # document_owner)

\* delete_document on a document of the index
DeleteDocument ==
    /\ \E user_id \in Requesters, document \in documents :
          IF MayDelete(user_id, document.owner_id)
          THEN /\ documents' = documents \ {document}
               /\ deleted' = deleted \cup
                     {[document |-> document, user_id |-> user_id,
                       status |-> 200]}
          ELSE /\ documents' = documents
               /\ deleted' = deleted \cup
                     {[document |-> document, user_id |-> user_id,
                       status |-> 403]}
    /\ UNCHANGED <<config, single, store, nreq, tasks, completed, http, listings, casedb>>

InitDocuments ==
    /\ Idle
    /\ enable_functions = TRUE
    /\ use_database = TRUE
    /\ lim = [reqs |-> 0, chunks |-> 0, sessions |-> {}, users |-> {},
              security |-> {TRUE},
              embedding |-> {"vector"}]

NextDocuments ==
    \/ UploadDocument
    \/ DeleteDocument

SpecDocuments == InitDocuments /\ [][NextDocuments]_vars

(***************************************************************************)
(* SpecListing: GET /api/documents next to one chat request, for every     *)
(* user id, with and without security.                                     *)
(***************************************************************************)
\* f"allowed_users/any(u: u eq '{user_id}')" of get_documents
ListAnyEq(principal) ==
    <<"allowed_users/any(u: u eq ", "'">> \o Chars(principal) \o <<"'", ")">>

\* a filter that takes the empty user id for a user: "if user_id is not None"
ListFilterNoneOnly(user_id, security) ==
    IF security
    THEN IF user_id # None THEN ListAnyEq(user_id) ELSE ListAnyEq("anonymous")
    ELSE NoFilter

\* security_filter of get_documents, lines 1257-1268
ListFilter(user_id, security) ==
    IF security
    THEN IF Truthy(user_id) THEN ListAnyEq(user_id) ELSE ListAnyEq("anonymous")
    ELSE NoFilter

\* the documents search("*", filter=security_filter, top=50) finds
Listed(security_filter) ==
    {d.title : d \in {doc \in Index : Matches(security_filter, doc)}}

\* get_documents: the list of the documents the filter admits; a search
\* that raises, as on a filter that is not well formed, is answered with []
GetDocuments ==
    /\ Len(listings) < ListingRequests
    /\ \E user_id \in lim.users, security \in BOOLEAN :
          LET security_filter == ListFilter(user_id, security)
              asked == [user_id |-> user_id, security |-> security,
                        security_filter |-> security_filter]
          IN  \/ /\ SearchOutcomes(security_filter, 1) # {}
                 /\ listings' = Append(listings,
                       asked @@ [raised |-> FALSE,
                                 documents |-> Listed(security_filter)])
              \/ listings' = Append(listings,
                       asked @@ [raised |-> TRUE, documents |-> {}])
    /\ UNCHANGED <<config, store, single, nreq, tasks, completed, http,
                   documents, deleted, casedb>>

InitListing ==
    /\ Idle
    /\ enable_functions = FALSE
    /\ use_database = TRUE
    /\ lim = [reqs |-> 1, chunks |-> 0,
              sessions |-> {"s1"}, users |-> UserIds, security |-> BOOLEAN,
              embedding |-> {"vector"}]

NextListing ==
    \/ StartTurn
    \/ StartTurnFails
    \/ StreamEndsPlain
    \/ GetDocuments

SpecListing == InitListing /\ [][NextListing]_vars

(***************************************************************************)
(* SpecCases: create_legal_case_db called again and again on the seeded    *)
(* database, while the calendar moves on and SQLiteMCPClient.create_case   *)
(* inserts rows whose id and case number its caller chose.  The function   *)
(* has no await between its SELECT and its commit, so one call is one      *)
(* step.                                                                   *)
(***************************************************************************)
\* uuid.uuid4().hex[:6], which may repeat
Hex == {"0a1b2c", "3d4e5f"}

\* str(e) of what the except branch of create_legal_case_db may have
\* caught: the connection or a statement failing, or the INSERT breaking
\* one of the two constraints
Caught(table, row) ==
    {"OperationalError"}
    \cup (IF \E i \in 1..Len(table) : table[i].id = row.id
          THEN {"UNIQUE constraint failed: cases.id"} ELSE {})
    \cup (IF \E i \in 1..Len(table) :
                 table[i].case_number = row.case_number
          THEN {"UNIQUE constraint failed: cases.case_number"} ELSE {})

CreateLegalCase ==
    /\ Len(created) < MaxCreates
    /\ \E hex \in Hex :
          LET case_id == CaseId(hex)
              current_year == clock
              case_numbers == SelectSeq(cases,
                                  LAMBDA row : Like(row.case_number,
                                                    current_year))
              next_num == Len(case_numbers) + 1
              case_number == CaseNumber(current_year, next_num)
              case_data == [id |-> case_id, case_number |-> case_number]
          IN  \/ /\ Insertable(cases, case_data)
                 /\ cases' = Append(cases, case_data)
                 /\ created' = Append(created,
                                   [success |-> TRUE, data |-> case_data])
              \/ \E e \in Caught(cases, case_data) :
                     /\ cases' = cases
                     /\ created' = Append(created,
                                       [success |-> FALSE, error |-> e])
    /\ UNCHANGED <<config, store, single, nreq, tasks, completed, http,
                   documents, deleted, listings, clock>>

\* the rows the callers of SQLiteMCPClient.create_case pass
McpRows ==
    { [id |-> CaseId("100"), case_number |-> CaseNumber(2025, 5)],
      [id |-> CaseId("101"), case_number |-> CaseNumber(2026, 2)] }

\* SQLiteMCPClient.create_case, the INSERT accepted
McpCreateCase ==
    /\ \E case_data \in McpRows :
          /\ Insertable(cases, case_data)
          /\ cases' = Append(cases, case_data)
    /\ UNCHANGED <<config, store, single, nreq, tasks, completed, http,
                   documents, deleted, listings, created, clock>>

\* datetime.now().year after New Year
NewYear ==
    /\ clock + 1 \in Years
    /\ clock' = clock + 1
    /\ UNCHANGED <<config, store, single, nreq, tasks, completed, http,
                   documents, deleted, listings, cases, created>>

InitCases ==
    /\ Idle
    /\ enable_functions = FALSE
    /\ use_database = TRUE
    /\ lim = [reqs |-> 0, chunks |-> 0,
              sessions |-> {"s1"}, users |-> {"alice"}, security |-> {FALSE},
              embedding |-> {"vector"}]

NextCases ==
    \/ CreateLegalCase
    \/ McpCreateCase
    \/ NewYear

SpecCases == InitCases /\ [][NextCases]_vars

(***************************************************************************)
(* SpecRetrieval: the two places that query the index, chat() and POST     *)
(* /api/search, with an embedding provider that may be unconfigured, may   *)
(* raise, may answer with nothing or may answer with a vector.             *)
(***************************************************************************)
\* SearchQuery.top, as the requests set it
SearchTops == {1, 2}

\* "if query_vector: vector_queries.append(VectorizedQuery(...))"
VectorQueries(query_vector, top) ==
    IF query_vector # <<>>
    THEN <<[vector |-> query_vector, k_nearest_neighbors |-> top,
            fields |-> "content_vector"]>>
    ELSE <<>>

\* the documents search_documents answers with
Found(hits) ==
    [i \in DOMAIN hits |->
        [title |-> hits[i].title,
         content |-> Slice(hits[i].content, 500)]]

\* search_documents: the embedding of the query, the search with the vector
\* query when there is one, and the answer; a search that raises is
\* answered with 500
SearchDocuments ==
    /\ Len(SelectSeq(searches, LAMBDA q : q.by = "search_documents"))
          < RetrievalSearches
    /\ \E provider \in lim.embedding, top \in SearchTops :
          LET query == Message(Len(searches) + 1)
              query_vector == GenerateEmbedding(provider)
              search == [by |-> "search_documents",
                         provider |-> provider,
                         search_text |-> query,
                         query_type |-> "simple",
                         vector_queries |-> VectorQueries(query_vector, top),
                         top |-> top]
          IN  \/ \E hits \in SearchOutcomes(NoFilter, top) :
                    searches' = Append(searches,
                        search @@ [status |-> 200,
                                   documents |-> Found(hits)])
              \/ searches' = Append(searches,
                        search @@ [status |-> 500, documents |-> <<>>])
    /\ UNCHANGED <<config, store, elsewhere, pc, req, filter_expr, results,
                   search_results, context, messages, accumulated, k, out,
                   propagated, failure, stream, effects, nreq>>

InitRetrieval ==
    /\ Idle
    /\ enable_functions = FALSE
    /\ use_database = TRUE
    /\ lim = [reqs |-> RetrievalRequests, chunks |-> 0,
              sessions |-> {"s1"}, users |-> {"alice"}, security |-> {TRUE},
              embedding |-> EmbeddingOutcomes]

NextRetrieval ==
    \/ StartTurn
    \/ StartTurnFails
    \/ StreamEndsPlain
    \/ SearchDocuments

SpecRetrieval == InitRetrieval /\ [][NextRetrieval]_vars

(***************************************************************************)
(* SpecCitations: a completion model that does what _build_messages and    *)
(* AGENT_INSTRUCTIONS ask of it and ends its answer with the comment       *)
(* "<!-- SOURCES: i1,...,ik -->", with numbers of its own choosing.        *)
(***************************************************************************)
\* the numbers a model may put in the comment, in the order it puts them
CitedLists == {<<1>>, <<1, 3>>, <<3, 1>>, <<1, 7>>}

RECURSIVE Numerals(_)
\* "i1,...,ik"
Numerals(indices) ==
    IF Len(indices) = 1
    THEN <<Str(indices[1])>>
    ELSE <<Str(indices[1]), ",">> \o Numerals(Tail(indices))

\* the text "<!-- SOURCES: i1,...,ik -->" of a delta.content
Marker(indices) == <<"<!-- SOURCES: ">> \o Numerals(indices) \o <<" -->">>

\* a chunk whose delta.content is the comment: lines 218-221, the code of
\* TextDelta
MarkerDelta ==
    /\ pc = "stream"
    /\ nchunks < lim.chunks
    /\ nchunks' = nchunks + 1
    /\ \E indices \in CitedLists :
          LET content == Marker(indices)
          IN  /\ full_response' = full_response \o content
              /\ out' = Append(out, TextFragment(content))
    /\ UNCHANGED <<config, elsewhere, store, request, pc, stream, tool_calls, k,
                   propagated, failure, byIndex, origin, effects>>

InitCitations ==
    /\ Idle
    /\ enable_functions = FALSE
    /\ use_database = TRUE
    /\ lim = [reqs |-> CitationRequests, chunks |-> CitationChunks,
              sessions |-> {"s1"}, users |-> {"alice"}, security |-> BOOLEAN,
              embedding |-> {"vector"}]

NextCitations ==
    \/ StartTurn
    \/ TextDelta
    \/ MarkerDelta
    \/ StreamEndsPlain

SpecCitations == InitCitations /\ [][NextCitations]_vars

(***************************************************************************)
(* SpecCancel: SpecDispatch with a caller that may go away.  When the      *)
(* client disconnects, the StreamingResponse of /api/chat is cancelled:    *)
(* CancelledError is raised at the await the generator is suspended in, or *)
(* the generator is closed at its yield.  Neither is an Exception, so no   *)
(* except clause of chat() or _execute_tool_call catches it.               *)
(***************************************************************************)
\* cancelled in "await self._execute_tool_call", inside the handler: only
\* the handlers of IntegrationActions have an await to be cancelled in
\* (call_external_api); those of db_tools run without suspending
CancelInHandler ==
    /\ pc = "handler"
    /\ Plan(tool_calls[NextCall], use_database).handler.via = "external"
    /\ effects' = Append(effects, [event |-> "cancelled", call |-> NextCall])
    /\ pc' = "done"
    /\ propagated' = TRUE
    /\ failure' = "cancelled"
    /\ UNCHANGED <<config, elsewhere, store, request, accumulated, stream,
                   k, out>>

\* closed at the yield of the banner or of a result block
CloseAtYield ==
    /\ pc = "tools"
    /\ pc' = "done"
    /\ failure' = "cancelled"
    /\ UNCHANGED <<config, elsewhere, store, request, accumulated, stream,
                   k, out, propagated, effects>>

NextCancel ==
    \/ NextDispatch
    \/ CancelInHandler
    \/ CloseAtYield

SpecCancel == InitDispatch /\ [][NextCancel]_vars

\* SpecDispatch with the generator driven to its end: its consumer keeps
\* iterating, and every awaited handler comes back, with a result or with
\* an exception
SpecDispatchFair == SpecDispatch /\ WF_vars(NextDispatch)

(***************************************************************************)
(* SpecConcurrent: several requests served side by side by the one agent.  *)
(* Every request has its own chat() generator; the event loop runs one of  *)
(* them at a time, from one suspension point to the next.  tasks[t] is the *)
(* generator of the t-th request:                                          *)
(*   pc             "stream" while it consumes the stream, then "done"     *)
(*   session_id,    the arguments of the request                           *)
(*   message                                                               *)
(*   read           the conversation _build_messages put into the prompt   *)
(*   full_response  the text deltas so far                                 *)
(***************************************************************************)
\* a mix-up of the sessions: the turns go to every conversation
RecordedInEvery(convs, session_id, message, response) ==
    [s \in DOMAIN convs |-> UpdateHistory(convs[s], message, response)]

\* a chat() that stores the user turn when the request starts, ahead of
\* what the session holds when the request ends
RecordedApart(convs, session_id, message, response) ==
    [convs EXCEPT ![session_id] =
        Trim(<<UserTurn(message)>> \o @ \o <<AssistantTurn(response)>>)]

\* lines 231-237: the turns go to the conversation of session_id
Recorded(convs, session_id, message, response) ==
    [convs EXCEPT ![session_id] = UpdateHistory(@, message, response)]

\* lines 127-187 of a request, up to the first chunk of its stream
TaskBegin ==
    /\ nreq < lim.reqs
    /\ \E session_id \in lim.sessions :
          /\ conversations' = GetOrCreate(conversations, session_id)
          /\ allTurns' = GetOrCreate(allTurns, session_id)
          /\ tasks' = Append(tasks,
                [pc |-> "stream", session_id |-> session_id,
                 message |-> Message(nreq + 1),
                 read |-> conversations'[session_id],
                 full_response |-> <<>>])
    /\ nreq' = nreq + 1
    /\ UNCHANGED <<config, single, completed, http, listings, casedb, documents, deleted>>

\* a chunk with delta.content for the generator t: lines 218-221
TaskText(t) ==
    /\ tasks[t].pc = "stream"
    /\ Len(tasks[t].full_response) \div 2 < lim.chunks
    /\ tasks' = [tasks EXCEPT ![t].full_response =
                    @ \o Content(Len(@) \div 2 + 1)]
    /\ UNCHANGED <<config, single, store, nreq, completed, http, listings, casedb, documents,
                   deleted>>

\* the stream of the generator t ends: lines 231-237
TaskEnd(t) ==
    /\ tasks[t].pc = "stream"
    /\ conversations' = Recorded(conversations, tasks[t].session_id,
                                 tasks[t].message, tasks[t].full_response)
    /\ allTurns' = [allTurns EXCEPT ![tasks[t].session_id] =
                      @ \o <<UserTurn(tasks[t].message),
                             AssistantTurn(tasks[t].full_response)>>]
    /\ completed' = Append(completed, tasks[t])
    /\ tasks' = [tasks EXCEPT ![t].pc = "done"]
    /\ UNCHANGED <<config, single, nreq, http, listings, casedb, documents, deleted>>

\* the stream of the generator t raises: lines 239-241
TaskFails(t) ==
    /\ tasks[t].pc = "stream"
    /\ tasks' = [tasks EXCEPT ![t].pc = "done"]
    /\ UNCHANGED <<config, single, store, nreq, completed, http, listings, casedb, documents,
                   deleted>>

ConcurrentSessions == {"s1", "s2"}

InitConcurrent ==
    /\ Idle
    /\ enable_functions = FALSE
    /\ use_database = TRUE
    /\ lim = [reqs |-> ConcurrentRequests, chunks |-> ConcurrentChunks,
              sessions |-> ConcurrentSessions, users |-> {"alice"},
              security |-> {TRUE},
              embedding |-> {"vector"}]

NextConcurrent ==
    \/ TaskBegin
    \/ \E t \in DOMAIN tasks : TaskText(t)
    \/ \E t \in DOMAIN tasks : TaskEnd(t)
    \/ \E t \in DOMAIN tasks : TaskFails(t)

SpecConcurrent == InitConcurrent /\ [][NextConcurrent]_vars

(***************************************************************************)
(* SpecSameSession: concurrent requests on one session that already holds  *)
(* the turns of EarlierRequests requests served one after another, so that *)
(* the concurrent ones reach the trimming.                                 *)
(***************************************************************************)
\* the turns of the first n earlier requests
EarlierTurns(n) ==
    [j \in 1..(2 * n) |->
        IF j % 2 = 1 THEN UserTurn(Message((j + 1) \div 2))
        ELSE AssistantTurn(Content(1))]

\* the generator of the i-th of the earlier requests, once it has ended
Earlier(i) ==
    [pc |-> "done", session_id |-> "s1", message |-> Message(i),
     read |-> EarlierTurns(i - 1),
     full_response |-> Content(1)]

InitSameSession ==
    /\ conversations = ("s1" :> Trim(EarlierTurns(EarlierRequests)))
    /\ allTurns = ("s1" :> EarlierTurns(EarlierRequests))
    /\ tasks = [i \in 1..EarlierRequests |-> Earlier(i)]
    /\ completed = [i \in 1..EarlierRequests |->
                       [Earlier(i) EXCEPT !.pc = "stream"]]
    /\ nreq = EarlierRequests
    /\ pc = "idle"
    /\ req = [message |-> <<>>, session_id |-> None, user_id |-> None,
              security_enabled |-> TRUE, tools |-> FALSE]
    /\ filter_expr = NoFilter
    /\ results = <<>>
    /\ search_results = <<>>
    /\ context = <<>>
    /\ messages = <<>>
    /\ searches = <<>>
    /\ full_response = <<>>
    /\ tool_calls = <<>>
    /\ k = 0
    /\ out = <<>>
    /\ propagated = FALSE
    /\ failure = "none"
    /\ nchunks = 0
    /\ stream = "closed"
    /\ byIndex = <<>>
    /\ origin = <<>>
    /\ effects = <<>>
    /\ http = [session_id |-> None]
    /\ documents = {}
    /\ deleted = {}
    /\ listings = <<>>
    /\ Seeded
    /\ enable_functions = FALSE
    /\ use_database = TRUE
    /\ lim = [reqs |-> EarlierRequests + SameSessionRequests,
              chunks |-> ConcurrentChunks,
              sessions |-> {"s1"}, users |-> {"alice"}, security |-> {TRUE},
              embedding |-> {"vector"}]

SpecSameSession == InitSameSession /\ [][NextConcurrent]_vars

(***************************************************************************)
(* What the caller has received, for the claims below.                     *)
(***************************************************************************)
Range(s) == {s[i] : i \in 1..Len(s)}

IsText(fragment) == fragment.kind = "text"

IsResult(fragment) == fragment.kind = "result"

\* the text fragments and the tool-result blocks yielded so far
Texts == SelectSeq(out, IsText)

Blocks == SelectSeq(out, IsResult)

RECURSIVE Joined(_)
\* the texts of a sequence of text fragments, concatenated
Joined(fragments) ==
    IF fragments = <<>> THEN <<>>
    ELSE fragments[1].text \o Joined(Tail(fragments))

\* the events of the handler of call j
Starts(j) == {e \in 1..Len(effects) :
                 effects[e].event = "start" /\ effects[e].call = j}

(***************************************************************************)
(* C1.  For any sequence of tool-call deltas of one stream, once the       *)
(* stream has ended there is, for every stream index i that occurred, one  *)
(* accumulated invocation with the id and name of the first delta at i and *)
(* with the argument fragments of exactly the deltas at i, concatenated in *)
(* arrival order; and there is no other invocation.                        *)
(* Stated as the claim has it; the code violates it when the first delta   *)
(* of an index arrives out of the order 0, 1, 2, ...                       *)
(***************************************************************************)
C1_AccumulatedPerIndex ==
    stream = "ended" =>
        /\ Len(tool_calls) = Cardinality(DOMAIN byIndex)
        /\ \A i \in DOMAIN byIndex :
              \E p \in 1..Len(tool_calls) : tool_calls[p] = byIndex[i]

(***************************************************************************)
(* C2.  After any sequence of completed turns on a session, the number of  *)
(* stored turns is even and at most max_conversation_history, and the      *)
(* stored turns are exactly the most recent of all the turns appended to   *)
(* the session, in their original order.                                   *)
(***************************************************************************)
Min(a, b) == IF a <= b THEN a ELSE b

C2_TrimmedToMostRecent ==
    \A s \in DOMAIN conversations :
        /\ Len(conversations[s]) % 2 = 0
        /\ Len(conversations[s]) <= max_conversation_history
        /\ Len(conversations[s]) =
              Min(Len(allTurns[s]), max_conversation_history)
        /\ conversations[s] = LastN(allTurns[s], Len(conversations[s]))

\* a session of which turns have been discarded
C2_Witness ==
    \E s \in DOMAIN conversations :
        /\ Len(allTurns[s]) > max_conversation_history
        /\ Len(conversations[s]) = max_conversation_history

(***************************************************************************)
(* C10.  In every reachable state the stored turns of a session are        *)
(* complete pairs: a user turn at every odd position, followed by the      *)
(* assistant turn that was appended with it; and every step that changes   *)
(* the turns appended to a session appends exactly two, a user turn and    *)
(* an assistant turn.                                                      *)
(***************************************************************************)
PairsOnly(conversation, appended) ==
    /\ Len(conversation) % 2 = 0
    /\ \A j \in 1..(Len(conversation) \div 2) :
          /\ conversation[2 * j - 1].role = "user"
          /\ conversation[2 * j].role = "assistant"
          /\ \E m \in 1..(Len(appended) \div 2) :
                /\ appended[2 * m - 1] = conversation[2 * j - 1]
                /\ appended[2 * m] = conversation[2 * j]

TwoTurnsPerRequest ==
    \A s \in DOMAIN allTurns :
        allTurns'[s] # allTurns[s] =>
            /\ Len(allTurns'[s]) = Len(allTurns[s]) + 2
            /\ SubSeq(allTurns'[s], 1, Len(allTurns[s])) = allTurns[s]
            /\ allTurns'[s][Len(allTurns[s]) + 1] = UserTurn(req.message)
            /\ allTurns'[s][Len(allTurns[s]) + 2].role = "assistant"
            /\ pc' = "done"

C10_CompletePairs ==
    /\ [](\A s \in DOMAIN conversations :
             PairsOnly(conversations[s], allTurns[s]))
    /\ [][TwoTurnsPerRequest]_vars

\* a trimmed session that still starts with a user turn
C10_Witness ==
    \E s \in DOMAIN conversations :
        /\ Len(allTurns[s]) > max_conversation_history
        /\ conversations[s][1].role = "user"
        /\ conversations[s][1] # allTurns[s][1]

(***************************************************************************)
(* C9.  The access predicate built from (user_id, security_enabled) is     *)
(* total and has three outcomes: security disabled gives no restriction;   *)
(* security enabled with a user id restricts retrieval to the documents    *)
(* whose allowed_users hold that user id; security enabled without a user  *)
(* id (None or empty) restricts it to the documents whose allowed_users    *)
(* hold "anonymous".  The code violates it for a user id with a quote.     *)
(***************************************************************************)
\* the documents of the index that filter_expr admits
Admitted == {d \in Index : Matches(filter_expr, d)}

C9_ThreeOutcomes ==
    nreq > 0 =>
        /\ filter_expr = NoFilter \/ WellFormed(filter_expr)
        /\ ~req.security_enabled => Admitted = Index
        /\ req.security_enabled /\ Truthy(req.user_id) =>
              Admitted = {d \in Index : req.user_id \in d.allowed_users}
        /\ req.security_enabled /\ ~Truthy(req.user_id) =>
              Admitted = {d \in Index : "anonymous" \in d.allowed_users}

(***************************************************************************)
(* C3.  The router resolves a function name in a fixed order.  When the    *)
(* local handlers are registered (the import of db_tools succeeded) and    *)
(* the name is one of them, the local handler of that name and no other is *)
(* invoked; otherwise, when the name is one of the external handlers, that *)
(* external handler is invoked; otherwise no handler is invoked and the    *)
(* result is the failure "Unknown function: <name>".  A handler is         *)
(* invoked at most once per call, and exactly once for a call with a known *)
(* name and an argument object.                                            *)
(***************************************************************************)
LocalRegistered(function_name) == use_database /\ function_name \in LocalNames

\* the calls that have been executed and have yielded their block
Executed == 1..Len(Blocks)

C3_ResolutionOrder ==
    /\ \A e \in 1..Len(effects) :
          effects[e].event = "start" =>
              LET function_name == tool_calls[effects[e].call].name
              IN  /\ effects[e].handler.function = function_name
                  /\ LocalRegistered(function_name) =>
                        effects[e].handler.via = "local"
                  /\ ~LocalRegistered(function_name) =>
                        /\ function_name \in ExternalNames
                        /\ effects[e].handler.via = "external"
    /\ \A j \in 1..Len(tool_calls) : Cardinality(Starts(j)) <= 1
    /\ \A j \in Executed :
          LET call == tool_calls[j]
              known == \/ LocalRegistered(call.name)
                       \/ call.name \in ExternalNames
          IN  /\ JsonLoads(call.arguments) = "object" /\ known =>
                    Cardinality(Starts(j)) = 1
              /\ JsonLoads(call.arguments) # "JSONDecodeError" /\ ~known =>
                    /\ Starts(j) = {}
                    /\ Blocks[j] = ActionFailed(call.name,
                                       <<"Unknown function", call.name>>)

\* a name with both handlers went to the local one, and was executed
C3_Witness ==
    /\ 1 \in Executed
    /\ tool_calls[1].name \in LocalNames \cap ExternalNames
    /\ \E e \in Starts(1) : effects[e].handler.via = "local"

(***************************************************************************)
(* C8.  No handler exception leaves the router: for every function name    *)
(* with a handler, when the handler raises, _execute_tool_call returns an  *)
(* "Execution Error" block that carries the description of the error,      *)
(* nothing reaches the except clause of chat(), and the turn goes on with  *)
(* the next call: at the end every accumulated call has its block.         *)
(***************************************************************************)
\* the position in effects of the return of the handler of call j
ReturnsOf(j) == {e \in 1..Len(effects) :
                    effects[e].event = "return" /\ effects[e].call = j}

C8_HandlerExceptionContained ==
    /\ ~propagated
    /\ failure = "none"
    /\ \A j \in 1..Len(tool_calls) : \A e \in ReturnsOf(j) :
          effects[e].outcome.raised =>
              /\ j \in Executed
              /\ Blocks[j] = ExecutionError(effects[e].outcome.error)
              /\ k > j
    /\ pc = "done" => Len(Blocks) = Len(tool_calls)

\* the handler of the first call raised and the handler of the second was
\* started after it
C8_Witness ==
    /\ Len(tool_calls) = 2
    /\ \E e \in ReturnsOf(1) : effects[e].outcome.raised
    /\ Starts(2) # {}
    /\ pc = "done"

(***************************************************************************)
(* C4.  In tool resolution a call whose accumulated arguments do not       *)
(* parse as JSON yields the "Invalid Arguments" block, for that call only: *)
(* no handler is started for it, nothing reaches the except clause of      *)
(* chat(), every call of the turn yields its own block in its turn, and    *)
(* the fragments already yielded - the text deltas among them - stay as    *)
(* they are while further fragments are appended.                          *)
(***************************************************************************)
Unparsable(j) == JsonLoads(tool_calls[j].arguments) = "JSONDecodeError"

OutOnlyGrows == Len(out') >= Len(out) /\ SubSeq(out', 1, Len(out)) = out

C4_ParseFailureIsolated ==
    /\ [](/\ \A j \in Executed :
                /\ Unparsable(j) <=> Blocks[j] = InvalidArguments
                /\ Unparsable(j) => Starts(j) = {}
          /\ pc = "done" => Len(Blocks) = Len(tool_calls)
          /\ failure = "none" /\ ~propagated
          /\ Joined(Texts) = full_response)
    /\ [][OutOnlyGrows]_vars

\* text was streamed, the first call did not parse, the handler of the
\* second call ran and the turn is over
C4_Witness ==
    /\ pc = "done"
    /\ Texts # <<>>
    /\ Len(tool_calls) = 2
    /\ Unparsable(1)
    /\ Starts(2) # {}
    /\ Len(Blocks) = 2

(***************************************************************************)
(* C5.  Per request chat() moves IDLE -> STREAMING -> {TOOL_RESOLUTION}    *)
(* -> DONE.  It is in TOOL_RESOLUTION only when the stream has ended and   *)
(* at least one tool call was accumulated; it leaves STREAMING for         *)
(* TOOL_RESOLUTION exactly when a tool call was accumulated and for DONE   *)
(* otherwise; and no handler has been started while the stream is still    *)
(* being consumed.                                                         *)
(***************************************************************************)
PhaseSteps ==
    {<<"IDLE", "STREAMING">>, <<"DONE", "STREAMING">>,
     <<"STREAMING", "STREAMING">>, <<"STREAMING", "TOOL_RESOLUTION">>,
     <<"STREAMING", "DONE">>, <<"TOOL_RESOLUTION", "TOOL_RESOLUTION">>,
     <<"TOOL_RESOLUTION", "DONE">>}

\* a step of a request that does not fail
PhaseStep ==
    failure' = "none" =>
        /\ <<Phase, Phase'>> \in PhaseSteps
        /\ Phase = "STREAMING" /\ Phase' = "TOOL_RESOLUTION" =>
              stream' = "ended" /\ tool_calls # <<>>
        /\ Phase = "STREAMING" /\ Phase' = "DONE" =>
              stream' = "ended" /\ tool_calls = <<>>
        /\ Phase = "STREAMING" /\ Phase' = "STREAMING" => stream' = "open"

C5_PhasesInOrder ==
    /\ [](/\ Phase = "TOOL_RESOLUTION" =>
                stream = "ended" /\ tool_calls # <<>>
          /\ Phase = "STREAMING" => stream = "open" /\ effects = <<>>
          /\ effects # <<>> => stream = "ended"
          /\ Phase = "DONE" /\ failure = "none" /\ tool_calls = <<>> =>
                effects = <<>> /\ Blocks = <<>> /\ Banner \notin Range(out))
    /\ [][PhaseStep]_vars

\* a request went through tool resolution, with a handler, and is done
C5_Witness ==
    /\ Phase = "DONE"
    /\ failure = "none"
    /\ tool_calls # <<>>
    /\ effects # <<>>

(***************************************************************************)
(* C6.  The tool calls of one turn are executed strictly one after         *)
(* another, never concurrently: a handler is started only when every       *)
(* handler started before it has returned.  And, as the claim has it, they *)
(* are executed in the order of their stream indices.  The code violates   *)
(* the order when the first deltas of two indices arrive out of order: it  *)
(* executes the calls in the order it appended them (see C1).              *)
(***************************************************************************)
Sequential ==
    /\ \A e \in 1..Len(effects) :
          IF e % 2 = 1
          THEN effects[e].event = "start"
          ELSE /\ effects[e].event = "return"
               /\ effects[e].call = effects[e - 1].call
    /\ pc = "handler" <=> Len(effects) % 2 = 1

C6_SequentialInIndexOrder ==
    /\ Sequential
    /\ \A e1, e2 \in 1..Len(effects) :
          /\ e1 < e2
          /\ effects[e1].event = "start"
          /\ effects[e2].event = "start"
          => origin[effects[e1].call] < origin[effects[e2].call]

(***************************************************************************)
(* C7.  As the claim has it: when the completion transport fails during    *)
(* streaming, the caller receives a summary built from the retrieved       *)
(* context and no error.  The code has no such summary.                    *)
(***************************************************************************)
Kinds == {out[i].kind : i \in 1..Len(out)}

RECURSIVE TurnsOf(_, _)
\* the turns of the requests of session s in a completion log
TurnsOf(log, s) ==
    IF log = <<>> THEN <<>>
    ELSE (IF log[1].session_id = s
          THEN <<UserTurn(log[1].message), AssistantTurn(log[1].full_response)>>
          ELSE <<>>) \o TurnsOf(Tail(log), s)

OneSessionChanges ==
    \A s \in DOMAIN conversations :
        conversations'[s] # conversations[s] =>
            \E t \in DOMAIN tasks :
                /\ tasks[t].session_id = s
                /\ tasks[t].pc = "stream"
                /\ tasks'[t].pc = "done"
                /\ \A other \in DOMAIN conversations \ {s} :
                      conversations'[other] = conversations[other]

C11_SessionsIndependent ==
    /\ [](/\ \A s \in DOMAIN conversations :
                conversations[s] =
                   LastN(TurnsOf(completed, s), max_conversation_history)
          /\ \A t \in DOMAIN tasks :
                \A i \in 1..Len(tasks[t].read) :
                    \E j \in 1..Len(TurnsOf(completed, tasks[t].session_id)) :
                       TurnsOf(completed, tasks[t].session_id)[j]
                          = tasks[t].read[i])
    /\ [][OneSessionChanges]_vars

\* requests of two sessions ran interleaved: one began on s2 with turns
\* stored on both sessions while a request on s1 was still streaming
C11_Witness ==
    /\ {"s1", "s2"} \subseteq DOMAIN conversations
    /\ conversations["s1"] # <<>>
    /\ conversations["s2"] # <<>>
    /\ \E t, u \in DOMAIN tasks :
          /\ t < u
          /\ tasks[t].session_id = "s1"
          /\ tasks[u].session_id = "s2"
          /\ tasks[t].pc = "stream"
          /\ tasks[u].pc = "done"
          /\ tasks[u].read # <<>>

(***************************************************************************)
(* C12.  Every call accumulated in tool_calls, in a turn that reaches tool *)
(* resolution, yields exactly one result block, a success or a failure:    *)
(* while the loop runs the blocks yielded are those of the calls executed  *)
(* so far, one each and in the order of the calls, and the block of a call *)
(* is the one _execute_tool_call makes for that call; when the turn is     *)
(* over every call has its block.                                          *)
(***************************************************************************)
\* the block _execute_tool_call has returned for call j
BlockOf(j) ==
    LET plan == Plan(tool_calls[j], use_database)
    IN  IF plan.await
        THEN {Format(tool_calls[j].name, effects[e].outcome).block :
                 e \in ReturnsOf(j)}
        ELSE {plan.result.block}

Statuses ==
    {"Action Completed", "Action Failed", "Invalid Arguments",
     "Execution Error"}

C12_OneBlockPerCall ==
    Phase = "TOOL_RESOLUTION" \/ (Phase = "DONE" /\ tool_calls # <<>>
                                   /\ failure = "none") =>
        /\ Len(Blocks) <= Len(tool_calls)
        /\ Len(Blocks) = IF pc = "done" THEN Len(tool_calls) ELSE k - 1
        /\ \A j \in Executed :
              /\ BlockOf(j) = {Blocks[j]}
              /\ Blocks[j].status \in Statuses
              /\ Cardinality(ReturnsOf(j)) <= 1
        /\ \A j \in 1..Len(tool_calls) :
              j \notin Executed => ReturnsOf(j) = {}

\* two calls with different results have both been executed
C12_Witness ==
    /\ pc = "done"
    /\ Len(tool_calls) = 2
    /\ Len(Blocks) = 2
    /\ Blocks[1].status = "Action Failed"
    /\ Blocks[2].status = "Action Completed"

(***************************************************************************)
(* C13.  A failure in tool resolution is reported as a marked block        *)
(* ("Action Failed", "Invalid Arguments" or "Execution Error") and the     *)
(* turn still reaches its end: once a call has failed the turn goes on to  *)
(* be done, and a finished turn with tool calls has, whatever the calls    *)
(* did, appended to its session the user turn with the message and the     *)
(* assistant turn with the streamed text, as a turn without failures does. *)
(***************************************************************************)
FailedStatuses == {"Action Failed", "Invalid Arguments", "Execution Error"}

AnyFailed == \E j \in Executed : Blocks[j].status \in FailedStatuses

AllFailed == \A j \in 1..Len(tool_calls) :
                j \in Executed /\ Blocks[j].status \in FailedStatuses

\* the session of the request ends with the pair of this turn
PairRecorded ==
    LET all == allTurns[req.session_id]
    IN  /\ Len(all) >= 2
        /\ SubSeq(all, Len(all) - 1, Len(all)) =
              <<UserTurn(req.message), AssistantTurn(Joined(Texts))>>
        /\ conversations[req.session_id] =
              LastN(all, max_conversation_history)

C13_FailedCallsStillRecordTurn ==
    /\ [](/\ pc = "done" /\ tool_calls # <<>> =>
                failure = "none" /\ ~propagated /\ PairRecorded
          /\ pc # "done" => allTurns[req.session_id] = <<>>)
    /\ (AnyFailed ~> (pc = "done" /\ PairRecorded))

\* a turn in which every call failed is over and recorded
C13_Witness ==
    /\ pc = "done"
    /\ Len(tool_calls) = 2
    /\ AllFailed
    /\ PairRecorded

(***************************************************************************)
(* C14.  As the claim has it: when the caller cancels a turn while a       *)
(* handler of an external action has been started, that handler runs to    *)
(* its end and its result is recorded: in a turn that is over, every       *)
(* started external handler has returned and its block has been yielded.   *)
(* The code cancels the handler where it is suspended.                     *)
(***************************************************************************)
C14_StartedHandlersFinish ==
    pc = "done" =>
        \A e \in 1..Len(effects) :
            effects[e].event = "start" /\ effects[e].handler.via = "external"
            => /\ ReturnsOf(effects[e].call) # {}
               /\ effects[e].call \in Executed

(***************************************************************************)
(* C15.  As the claim has it: a request to /api/chat that carries no       *)
(* session id gets a fresh one, the history of the turn is stored under    *)
(* it, and the response delivers that id to the caller.  The code stores   *)
(* the history under the fresh id and delivers the fragments only.         *)
(***************************************************************************)
\* the strings the response carries
Delivered ==
    {Response.media_type} \cup
    UNION {Range(Response.body[i].text) : i \in 1..Len(Response.body)}

C15_SessionIdReturned ==
    pc = "done" /\ failure = "none" /\ ~Truthy(http.session_id) =>
        /\ req.session_id \notin RequestedSessionIds
        /\ PairRecorded
        /\ req.session_id \in Delivered

(***************************************************************************)
(* C16.  A delete request removes a document from the index only when the  *)
(* requester is the owner of the document: for every requester, a request  *)
(* without user id included, and every document, a document whose owner    *)
(* the requester is not is still in the index after the request.  The      *)
(* code lets a request without user id delete any document.                *)
(***************************************************************************)
\* the owner a request acts as: its user id, or "anonymous" without one
Principal(user_id) == IF Truthy(user_id) THEN user_id ELSE "anonymous"

C16_OnlyOwnerDeletes ==
    /\ \A d \in deleted :
          Principal(d.user_id) # d.document.owner_id =>
              d.status = 403 /\ d.document \in documents
    /\ \A d \in deleted : d.status = 200 => d.document \notin documents

(***************************************************************************)
(* C17.  As the claim has it: every dict a handler returns, local or       *)
(* external, is a success with "success", "message" and "data", or a       *)
(* failure with success false and "error".  The handlers that return what  *)
(* call_external_api returned violate it.                                  *)
(***************************************************************************)
Normalized(result) ==
    IF result.success
    THEN {"success", "message", "data"} \subseteq result.keys
    ELSE "error" \in result.keys

C17_ResultsNormalized ==
    \A e \in 1..Len(effects) :
        effects[e].event = "return" /\ ~effects[e].result.raised =>
            Normalized(effects[e].result)

(***************************************************************************)
(* C18.  Whenever chat() has built the context of a request, the context   *)
(* has one part per collected search result, the parts are numbered 1..n   *)
(* in the order of the results with the result's title, and the content of *)
(* each part is a prefix, of at most context_chars_per_document            *)
(* characters, of the content of the indexed document of that title.       *)
(***************************************************************************)
IsPrefix(a, b) == a.of = b.of /\ a.first = b.first /\ a.last <= b.last

ContextBuilt == pc # "idle" /\ failure # "search"

Candidate(title) == CHOOSE d \in Index : d.title = title

C18_OnePartPerCandidate ==
    ContextBuilt =>
        /\ Len(context.parts) = Len(search_results)
        /\ \A i \in 1..Len(search_results) :
              /\ context.parts[i].idx = i
              /\ context.parts[i].title = search_results[i].title
              /\ IsPrefix(context.parts[i].content,
                          Candidate(search_results[i].title).content)
              /\ TextLen(context.parts[i].content)
                    <= context_chars_per_document

\* three results, the last of them longer than the budget and cut
C18_Witness ==
    /\ ContextBuilt
    /\ Len(search_results) = max_search_results
    /\ Len(context.parts) = max_search_results
    /\ context.parts[max_search_results].idx = max_search_results
    /\ TextLen(context.parts[max_search_results].content)
          = context_chars_per_document
    /\ TextLen(Candidate(context.parts[max_search_results].title).content)
          > context_chars_per_document

(***************************************************************************)
(* C19.  Whenever chat() has built the context of a request: the context   *)
(* is never the empty string; it is the sentence "No relevant documents    *)
(* found." exactly when the search returned no result; and the user        *)
(* message that closes the messages given to the completion model embeds   *)
(* that context.                                                           *)
(***************************************************************************)
EmptyContext == [sentence |-> "", parts |-> <<>>]

Prompt == messages[Len(messages)]

C19_NoDocumentsSentence ==
    ContextBuilt =>
        /\ context # EmptyContext
        /\ search_results = <<>> <=> context = NoDocuments
        /\ Prompt.role = "user"
        /\ Prompt.content.context = context
        /\ Prompt.content.question = req.message

\* a request whose search found nothing, its stream open on the prompt
C19_Witness ==
    /\ pc = "stream"
    /\ failure = "none"
    /\ search_results = <<>>
    /\ Prompt.content.context = NoDocuments

(***************************************************************************)
(* C20.  As the claim has it: every query given to the index carries the   *)
(* query text; it carries a nearest-neighbour query next to the text       *)
(* whenever the embedding provider answers with a non-empty vector; and    *)
(* when the provider fails or answers with nothing the query is the text   *)
(* alone and the failure is not an error of the request.  The search of    *)
(* chat() never carries a vector query.                                    *)
(***************************************************************************)
Hybrid(search) == search.search_text # <<>> /\ search.vector_queries # <<>>

LexicalOnly(search) == search.search_text # <<>> /\ search.vector_queries = <<>>

C20_HybridWhenVectorAvailable ==
    \A i \in 1..Len(searches) :
        /\ searches[i].provider = "vector" => Hybrid(searches[i])
        /\ searches[i].provider # "vector" => LexicalOnly(searches[i])

(***************************************************************************)
(* C21.  As the claim has it: whatever the model writes and however many   *)
(* parts the context has, every source number that reaches the caller of   *)
(* a turn lies in 1..number of parts; a number of the comment outside that *)
(* range is dropped.  The code has no step between the stream and the      *)
(* caller that reads the comment: it is yielded as the model wrote it.     *)
(***************************************************************************)
IsMarker(text) ==
    /\ Len(text) >= 3
    /\ text[1] = "<!-- SOURCES: "
    /\ text[Len(text)] = " -->"

Num(numeral) == CHOOSE n \in 0..9 : Str(n) = numeral

\* the numbers of a comment, in its order
MarkerIndices(text) == [i \in 1..((Len(text) - 1) \div 2) |-> Num(text[2 * i])]

\* the source numbers the caller has been given
CitedToCaller ==
    UNION {Range(MarkerIndices(out[i].text)) :
              i \in {j \in 1..Len(out) : IsText(out[j]) /\ IsMarker(out[j].text)}}

BlockCount == Len(context.parts)

C21_CitedIndicesInRange ==
    ContextBuilt => CitedToCaller \subseteq 1..BlockCount

(***************************************************************************)
(* C22.  As the claim has it: when the answer of a completed turn ends     *)
(* with the comment "<!-- SOURCES: i1,...,ik -->" and every number is in   *)
(* range, the text the caller has been given and the assistant turn that   *)
(* is stored are the answer without the comment.  The code removes         *)
(* nothing.                                                                *)
(***************************************************************************)
EndsInMarker(text, indices) ==
    /\ Len(text) >= Len(Marker(indices))
    /\ SubSeq(text, Len(text) - Len(Marker(indices)) + 1, Len(text))
          = Marker(indices)

Cleaned(text, indices) == SubSeq(text, 1, Len(text) - Len(Marker(indices)))

StoredAnswer ==
    conversations[req.session_id][Len(conversations[req.session_id])].content

C22_MarkerRemoved ==
    \A indices \in CitedLists :
        /\ pc = "done"
        /\ failure = "none"
        /\ EndsInMarker(full_response, indices)
        /\ Range(indices) \subseteq 1..BlockCount
        => /\ Joined(Texts) = Cleaned(full_response, indices)
           /\ StoredAnswer = Cleaned(full_response, indices)

PairOf(ended) ==
    <<UserTurn(ended.message), AssistantTurn(ended.full_response)>>

C25_PairsStayTogether ==
    \A s \in DOMAIN conversations :
        /\ Len(conversations[s]) % 2 = 0
        /\ Len(conversations[s]) <= max_conversation_history
        /\ \A j \in 1..(Len(conversations[s]) \div 2) :
              \E c \in 1..Len(completed) :
                  /\ completed[c].session_id = s
                  /\ SubSeq(conversations[s], 2 * j - 1, 2 * j)
                        = PairOf(completed[c])
        /\ conversations[s] =
              LastN(TurnsOf(completed, s), max_conversation_history)

\* two requests that ran side by side on the session and ended in the
\* order opposite to the one they began in, with different answers, the
\* session trimmed
C25_Witness ==
    \E c, d \in 1..Len(completed) :
        /\ c < d
        /\ completed[c].message = Message(EarlierRequests + 2)
        /\ completed[d].message = Message(EarlierRequests + 1)
        /\ completed[c].full_response # completed[d].full_response
        /\ completed[d].read = completed[c].read
        /\ Len(allTurns["s1"]) > max_conversation_history
        /\ Len(conversations["s1"]) = max_conversation_history

(***************************************************************************)
(* C26.  A turn that fails before its stream has ended (the search or the  *)
(* completion call raises as the request starts, or the stream raises,     *)
(* with or without text already yielded) appends nothing: the step that    *)
(* fails leaves the stored turns of every session as they were, a session  *)
(* it has just created being empty, and afterwards neither the message of  *)
(* the request nor its partial answer is among the turns of its session.   *)
(***************************************************************************)
FailingStep ==
    /\ failure' # "none"
    /\ nreq' # nreq \/ (pc = "stream" /\ pc' = "done")

TurnsBefore(convs, s) == IF s \in DOMAIN convs THEN convs[s] ELSE <<>>

NothingAppended ==
    FailingStep =>
        \A s \in DOMAIN conversations' :
            /\ conversations'[s] = TurnsBefore(conversations, s)
            /\ allTurns'[s] = TurnsBefore(allTurns, s)

C26_FailedTurnNotStored ==
    /\ [][NothingAppended]_vars
    /\ [](pc = "done" /\ failure # "none" =>
             UserTurn(req.message) \notin Range(allTurns[req.session_id]))

\* a stream that failed after text was yielded, on a session with turns
C26_Witness ==
    /\ pc = "done"
    /\ failure = "transport"
    /\ full_response # <<>>
    /\ \E i \in 1..Len(out) : IsText(out[i])
    /\ conversations[req.session_id] # <<>>

(***************************************************************************)
(* C27.  When a request has completed, the last two turns of its session   *)
(* are the user turn of its message and an assistant turn whose content is *)
(* the text deltas of the request concatenated in the order they arrived,  *)
(* which is the order they were yielded in.  The banner and the blocks of  *)
(* the tool results have been yielded but are not in the content; a        *)
(* request whose stream held tool calls only stores an empty content.      *)
(***************************************************************************)
Completed == pc = "done" /\ failure = "none"

LastPair(turns) == SubSeq(turns, Len(turns) - 1, Len(turns))

C27_StoredAnswerIsStreamedText ==
    Completed =>
        /\ LastPair(allTurns[req.session_id])
              = <<UserTurn(req.message), AssistantTurn(Joined(Texts))>>
        /\ LastPair(conversations[req.session_id])
              = LastPair(allTurns[req.session_id])
        /\ full_response = Joined(Texts)
        /\ HasToolCalls =>
              /\ \E i \in 1..Len(out) : out[i] = Banner
              /\ Len(Blocks) = Len(tool_calls)
        /\ Texts = <<>> => StoredAnswer = <<>>

\* a completed request that yielded text, the banner and a result block
C27_Witness ==
    /\ Completed
    /\ Texts # <<>>
    /\ Blocks # <<>>
    /\ \E i \in 1..Len(out) : out[i] = Banner
    /\ StoredAnswer = Joined(Texts)

(***************************************************************************)
(* C28.  As the claim has it: with security enabled, a document uploaded   *)
(* by p, tagged as upload_document tags it, is admitted for a requester q  *)
(* by the filter of the chat turn and by the filter of the document list   *)
(* if and only if the principal of q ("anonymous" for no user id) is the   *)
(* principal of p.  The filter built from a user id with a quote in it is  *)
(* not well formed (C9) and admits nothing, the user's own documents       *)
(* included.                                                               *)
(***************************************************************************)
Agrees(security_filter, requester) ==
    \A uploader \in UserIds :
        Matches(security_filter, Document(DocId(1), uploader))
            <=> Principal(requester) = Principal(uploader)

C28_TaggingAgreesWithPredicate ==
    /\ pc # "idle" /\ req.security_enabled =>
          Agrees(filter_expr, req.user_id)
    /\ \A i \in 1..Len(listings) :
          listings[i].security =>
              Agrees(listings[i].security_filter, listings[i].user_id)

(***************************************************************************)
(* C29.  The filter of the chat turn and the filter of the document list   *)
(* are the same function of (user id, security flag): whenever a list      *)
(* request and the chat request carry the same user id (None, empty or     *)
(* not) and the same flag, get_documents built the filter chat() built,    *)
(* and the documents the list may show are the documents the filter of the *)
(* turn admits.                                                            *)
(***************************************************************************)
SameInputs(asked) ==
    /\ pc # "idle"
    /\ asked.user_id = req.user_id
    /\ asked.security = req.security_enabled

C29_SameFilterInChatAndList ==
    \A i \in 1..Len(listings) :
        /\ SameInputs(listings[i]) =>
              /\ listings[i].security_filter = filter_expr
              /\ Listed(listings[i].security_filter)
                    = {d.title : d \in Admitted}
              /\ listings[i].documents \subseteq {d.title : d \in Admitted}
        /\ listings[i].security_filter
              = BuildFilter(listings[i].user_id, listings[i].security)

\* a list request and a chat request of the empty user id, security on,
\* both answered from the documents of "anonymous"
C29_Witness ==
    \E i \in 1..Len(listings) :
        /\ SameInputs(listings[i])
        /\ req.user_id = ""
        /\ req.security_enabled
        /\ listings[i].documents = {"policy.pdf"}
        /\ Len(search_results) = 1
        /\ search_results[1].title = "policy.pdf"

(***************************************************************************)
(* C30.  The case numbers of table cases are pairwise distinct at all      *)
(* times; a call of create_legal_case_db that returns success=true has     *)
(* added exactly one row, whose case number it returns and which no row    *)
(* had before the call; a call that returns success=false has left the     *)
(* table as it was.                                                        *)
(***************************************************************************)
CaseNumbers(table) == {table[i].case_number : i \in 1..Len(table)}

Distinct ==
    \A i, j \in 1..Len(cases) :
        cases[i].case_number = cases[j].case_number => i = j

Returned ==
    Len(created') = Len(created) + 1 =>
        LET r == created'[Len(created')]
        IN  IF r.success
            THEN /\ r.data.case_number \notin CaseNumbers(cases)
                 /\ cases' = Append(cases, r.data)
            ELSE cases' = cases

C30_CaseNumbersDistinct == []Distinct /\ [][Returned]_vars

\* one call has succeeded, and a later one has failed on a case number that
\* a row inserted in between had taken
C30_Witness ==
    \E i, j \in 1..Len(created) :
        /\ i < j
        /\ created[i].success
        /\ ~created[j].success
        /\ created[j].error = "UNIQUE constraint failed: cases.case_number"
        /\ \E row \in McpRows : row.case_number \in CaseNumbers(cases)
        /\ Len(cases) > Len(Seed) + 1

====
